---- MODULE Spec2Model ----
(***************************************************************************)
(* star-openapi: route / tag / schema registration and document assembly   *)
(* of APIRouter (src/star_openapi/router.py).                              *)
(*                                                                         *)
(* Strings that the code takes apart (url_prefix, rule, path) are          *)
(* sequences of one-character strings, so that rstrip, lstrip, startswith  *)
(* and concatenation are computed as the code computes them.               *)
(* An Optional value is a sequence of length <= 1: None is <<>> and a      *)
(* present value x is <<x>>.                                               *)
(***************************************************************************)
EXTENDS Naturals, Sequences, FiniteSets, TLC

VARIABLES
    cfg,                 \* router -> constructor arguments kept on the router
    paths,               \* router -> (uri -> reference to a PathItem)
    items,               \* heap of PathItem objects: reference -> PathItem
    components_schemas,  \* router -> (component name -> schema)
    tags,                \* router -> list of Tag
    tag_names,           \* router -> list of tag names
    routes,              \* router -> list of APIRoute / APIWebSocketRoute
    ndecl,               \* number of decorators applied so far
    response             \* Optional: the last request served and its outcome

vars == <<cfg, paths, items, components_schemas, tags, tag_names, routes, ndecl, response>>

(***************************************************************************)
(* Bounds                                                                  *)
(***************************************************************************)
MaxDecls == 2        \* decorators applied in one run
MaxRoutes == 4       \* routes held by all routers together

(***************************************************************************)
(* Values                                                                  *)
(***************************************************************************)
None == <<>>
Some(x) == <<x>>
IsSome(o) == Len(o) = 1
Val(o) == o[1]
\* Python's `x or []` for an Optional list
OrEmpty(o) == IF IsSome(o) THEN Val(o) ELSE <<>>

Routers == {"app", "api", "sub"}

Slash == "/"
Rules == { <<"/", "x">>, <<"x">> }

HTTPMethods == {"GET", "POST"}

\* Models (pydantic classes): a class name and the schema the class generates.
\* A1 and A2 are two different classes with the same __name__.
A1 == [name |-> "A", schema |-> "s1"]
A2 == [name |-> "A", schema |-> "s2"]
B1 == [name |-> "B", schema |-> "s1"]
Models == {A1, A2, B1}

\* Handler functions: __name__ and the annotated parameters of the signature.
NoParams == [header |-> None, cookie |-> None, path |-> None, query |-> None,
             form |-> None, body |-> None]
Handler(n, params) == [name |-> n, params |-> params]
F0 == Handler("f", NoParams)
FA1 == Handler("g", [NoParams EXCEPT !.body = Some(A1)])
FA2 == Handler("h", [NoParams EXCEPT !.body = Some(A2)])
FB == Handler("k", [NoParams EXCEPT !.query = Some(B1)])
Handlers == {F0, FA1, FA2, FB}

\* Tags and security requirements
TagApi == [name |-> "api", description |-> "d1"]
TagBook == [name |-> "book", description |-> "d1"]
TagBook2 == [name |-> "book", description |-> "d2"]
JWT == "jwt"
KEY == "key"

(***************************************************************************)
(* str methods used by the code                                            *)
(***************************************************************************)
\* str.startswith("/")
StartsWithSlash(s) == Len(s) > 0 /\ s[1] = Slash
\* str.endswith("/")
EndsWithSlash(s) == Len(s) > 0 /\ s[Len(s)] = Slash
\* str.rstrip("/")
RECURSIVE RStrip(_)
RStrip(s) == IF EndsWithSlash(s) THEN RStrip(SubSeq(s, 1, Len(s) - 1)) ELSE s
\* str.lstrip("/")
RECURSIVE LStrip(_)
LStrip(s) == IF StartsWithSlash(s) THEN LStrip(Tail(s)) ELSE s

\* the set of elements of a list
Range(s) == {s[i] : i \in 1..Len(s)}
\* [f(x) for x in s]
Names(ts) == [i \in 1..Len(ts) |-> ts[i].name]
\* dict.update: the entries of g replace and extend those of f
Update(f, g) == [k \in DOMAIN f \cup DOMAIN g |-> IF k \in DOMAIN g THEN g[k] ELSE f[k]]
EmptyDict == [k \in {} |-> None]

(***************************************************************************)
(* Routes                                                                  *)
(***************************************************************************)
\* starlette Route.__init__, reached through super().__init__: the methods
\* become a set, and HEAD is added to a route that serves GET.
RouteMethods(methods) == IF "GET" \in methods THEN methods \cup {"HEAD"} ELSE methods

\* `via` is not a field of the code's route.  It records the routers whose
\* register_api calls carried the route, outermost first: <<>> for a route
\* declared by a decorator.
APIRoute(path, origin_path, endpoint, methods, name, via) ==
    [kind |-> "http", path |-> path, origin_path |-> origin_path, endpoint |-> endpoint,
     methods |-> RouteMethods(methods), name |-> name, via |-> via]

APIWebSocketRoute(path, origin_path, endpoint, name, via) ==
    [kind |-> "ws", path |-> path, origin_path |-> origin_path, endpoint |-> endpoint,
     methods |-> {}, name |-> name, via |-> via]

\* a route whose path is the rule as written
RoutePath_AsIs(path) == path

\* the path normalisation at the head of _add_route and _add_websocket_route
RoutePath(path) == IF ~StartsWithSlash(path) THEN <<Slash>> \o path ELSE path

\* APIRouter._add_route: the route appended to self.routes
AddedRoute(path, endpoint, methods, name, via) ==
    APIRoute(RoutePath(path), path, endpoint, methods, name, via)

\* APIRouter._add_websocket_route: the route appended to self.routes
AddedWebSocketRoute(path, endpoint, name, via) ==
    APIWebSocketRoute(RoutePath(path), path, endpoint, name, via)

(***************************************************************************)
(* Helpers of star_openapi.utils and star_openapi.endpoint, as their       *)
(* callers in router.py use them                                           *)
(***************************************************************************)
\* re.sub(r"\W", "_", s): over this alphabet only "/" is not a word character
Sanitize(s) == [i \in 1..Len(s) |-> IF s[i] = Slash THEN "_" ELSE s[i]]

\* get_operation_id_for_path(url_prefix=, name=, path=, method=)
GetOperationIdForPath(url_prefix, name, path, method) ==
    Sanitize((IF Len(url_prefix) > 0 THEN url_prefix \o <<"_">> ELSE <<>>) \o <<name>> \o path)
        \o <<"_", method>>

\* parse_rule(rule, url_prefix=): merge url_prefix and rule with one "/"
\* between them; a trailing "/" is kept only when the rule has one.  (The
\* rewriting of path parameters does not apply: no rule here declares one.)
ParseRule(rule, url_prefix) ==
    LET uri == IF Len(url_prefix) > 0
               THEN RStrip(url_prefix) \o <<Slash>> \o LStrip(rule)
               ELSE rule
    IN IF ~EndsWithSlash(rule) THEN RStrip(uri) ELSE uri

\* parse_and_store_tags(new_tags, old_tags, old_tag_names, operation):
\* the tags and tag names after every tag with an unknown name is appended
RECURSIVE StoreTags(_, _)
StoreTags(new_tags, old) ==
    IF new_tags = <<>> THEN old
    ELSE LET t == Head(new_tags)
             nxt == IF t.name \in Range(old.tag_names) THEN old
                    ELSE [tags |-> Append(old.tags, t),
                          tag_names |-> Append(old.tag_names, t.name)]
         IN StoreTags(Tail(new_tags), nxt)

\* parse_and_store_tags: operation.tags = [tag.name for tag in new_tags] or None
TagNamesOrNone(new_tags) == IF new_tags = <<>> THEN None ELSE Some(Names(new_tags))

\* PathItem: one optional operation per HTTP method
EmptyPathItem == [m \in HTTPMethods |-> None]

\* The keys of a ResponseDict: a str, an int or an HTTPStatus member
StrKey(s) == [t |-> "str", s |-> s]
IntKey(n) == [t |-> "int", n |-> n]
HTTPStatusKey(n) == [t |-> "HTTPStatus", n |-> n]

\* str() of a non-negative int
Digit(d) == CASE d = 0 -> "0" [] d = 1 -> "1" [] d = 2 -> "2" [] d = 3 -> "3"
              [] d = 4 -> "4" [] d = 5 -> "5" [] d = 6 -> "6" [] d = 7 -> "7"
              [] d = 8 -> "8" [] d = 9 -> "9"
RECURSIVE IntToStr(_)
IntToStr(n) == IF n < 10 THEN Digit(n) ELSE IntToStr(n \div 10) \o Digit(n % 10)

\* the string a key is converted to: the key itself for a str, the decimal
\* digits of the value for an int or an HTTPStatus member
StatusKey(key) == IF key.t = "str" THEN key.s ELSE IntToStr(key.n)

\* convert_responses_key_to_string: a responses mapping is a list of
\* <<key, value>> entries in insertion order; the result is keyed by the
\* string of each key, a later entry replacing an earlier one with the same
\* string.
RECURSIVE ConvertResponsesKeyToString(_)
ConvertResponsesKeyToString(rs) ==
    IF rs = <<>> THEN EmptyDict
    ELSE LET n == Len(rs)
             e == rs[n]
             init == ConvertResponsesKeyToString(SubSeq(rs, 1, n - 1))
         IN Update(init, [k \in {StatusKey(e[1])} |-> e[2]])

\* the models a ParametersTuple holds
ParamModels(params) ==
    {Val(params[k]) : k \in {j \in DOMAIN params : IsSome(params[j])}}

\* the component schemas a set of models contributes: name -> schema (no two
\* models of one signature or one responses mapping share a name here)
SchemasOf(ms) ==
    [n \in {m.name : m \in ms} |-> (CHOOSE m \in ms : m.name = n).schema]

\* get_responses(responses, components_schemas, operation): the models of the
\* responses, whose schemas go to components_schemas
ResponseModels(responses) ==
    {Val(responses[c]) : c \in {k \in DOMAIN responses : IsSome(responses[k])}}

\* get_responses: operation.responses, status code -> referenced component
OperationResponses(responses) ==
    [c \in DOMAIN responses |->
        IF IsSome(responses[c]) THEN Some(Val(responses[c]).name) ELSE None]

DefaultContent == <<"application/json">>
FormContent == <<"multipart/form-data">>

\* parse_parameters: operation.requestBody.  A request_body given to the
\* decorator is used as it is; otherwise the body (or form) model of the
\* handler is referenced.
OperationRequestBody(params, request_body) ==
    IF IsSome(request_body) THEN request_body
    ELSE IF IsSome(params.body)
         THEN Some([kind |-> "RequestBody", content |-> DefaultContent,
                    ref |-> Some(Val(params.body).name)])
    ELSE IF IsSome(params.form)
         THEN Some([kind |-> "RequestBody", content |-> FormContent,
                    ref |-> Some(Val(params.form).name)])
    ELSE None

\* parse_parameters: the models whose schemas are written to components_schemas
DocumentedParamModels(params, request_body) ==
    IF IsSome(request_body)
    THEN ParamModels([k \in {"header", "cookie", "path", "query"} |-> params[k]])
    ELSE ParamModels(params)

\* parse_parameters(func, ...): the ParametersTuple read from the signature
ParseParameters(func) == func.params

\* create_endpoint(func, header, cookie, path, query, form, body)
CreateEndpoint(func, params, decl) ==
    [name |-> func.name, func |-> func, params |-> params, decl |-> decl]

(***************************************************************************)
(* APIRouter._collect_openapi_info                                         *)
(***************************************************************************)
\* The keyword arguments of a route decorator.  summary, description,
\* external_docs, servers and openapi_extensions are copied to the operation
\* and read by nothing else; they are left out.
DefaultKw ==
    [name |-> None, tags |-> None, security |-> None, doc_ui |-> TRUE,
     request_body |-> None, responses |-> <<>>, deprecated |-> None,
     operation_id |-> None]

\* a router that looks only at its own doc_ui and not at the decorator's
IsDocumented_RouterOnly(router_doc_ui, doc_ui) == router_doc_ui

\* `if self.doc_ui and doc_ui:`
IsDocumented(router_doc_ui, doc_ui) == router_doc_ui /\ doc_ui

\* a combination in which the router-level entry wins
CombineResponses_RouterWins(router_responses, responses) ==
    Update(ConvertResponsesKeyToString(responses), router_responses)

\* `{**self.responses, **endpoint_responses}`
CombineResponses(router_responses, responses) ==
    Update(router_responses, ConvertResponsesKeyToString(responses))

\* `operation_id or self.operation_id_callback(url_prefix=, name=, path=, method=)`
OperationId(operation_id, url_prefix, name, rule, method) ==
    IF IsSome(operation_id) /\ Val(operation_id) # <<>> THEN Val(operation_id)
    ELSE GetOperationIdForPath(url_prefix, name, rule, method)

\* `if deprecated is not None: operation.deprecated = deprecated`
OperationDeprecated(deprecated) == deprecated

\* an operation that gets the decorator's security and not the router's
OperationSecurity_RouteOnly(security, router_security) ==
    IF OrEmpty(security) # <<>> THEN Some(OrEmpty(security)) ELSE None

\* `_security = (security or []) + self.security or None`, then
\* `if _security: operation.security = _security`
OperationSecurity(security, router_security) ==
    LET _security == OrEmpty(security) \o router_security
    IN IF _security # <<>> THEN Some(_security) ELSE None

\* the router's tags put before the decorator's
OperationTagList_RouterFirst(tag_list, api_tags) == api_tags \o OrEmpty(tag_list)

\* `tags = (tags or []) + self.api_tags`
OperationTagList(tag_list, api_tags) == OrEmpty(tag_list) \o api_tags

\* a dict request_body handed on as it is
RequestBodyObject_Keep(request_body) == request_body

\* `if isinstance(request_body, dict): request_body = RequestBody(**request_body)`
RequestBodyObject(request_body) ==
    IF IsSome(request_body) /\ Val(request_body).kind = "dict"
    THEN Some([Val(request_body) EXCEPT !.kind = "RequestBody"])
    ELSE request_body

\* the operation a documented decorator builds
MakeOperation(r, rule, func, kw, method) ==
    LET responses == CombineResponses(cfg[r].responses, kw.responses)
        request_body == RequestBodyObject(kw.request_body)
        params == ParseParameters(func)
    IN [decl |-> <<r, method, rule, func.name>>,
        operationId |-> OperationId(kw.operation_id, cfg[r].url_prefix, func.name, rule, method),
        deprecated |-> OperationDeprecated(kw.deprecated),
        security |-> OperationSecurity(kw.security, cfg[r].security),
        tags |-> TagNamesOrNone(OperationTagList(kw.tags, cfg[r].api_tags)),
        requestBody |-> OperationRequestBody(params, request_body),
        parameters |-> {m.name : m \in ParamModels(
                            [k \in {"header", "cookie", "path", "query"} |-> params[k]])},
        responses |-> OperationResponses(responses),
        models |-> ResponseModels(responses) \cup DocumentedParamModels(params, request_body)]

\* parse_method(uri, method, self.paths, operation): the PathItem the
\* operation is written to: the one self.paths holds under uri, else a new one
PathItemRef(r, uri) == IF uri \in DOMAIN paths[r] THEN paths[r][uri] ELSE <<r, uri>>

\* the documented part of _collect_openapi_info
CollectOpenapiInfo(r, rule, func, kw, method) ==
    LET operation == MakeOperation(r, rule, func, kw, method)
        stored == StoreTags(OperationTagList(kw.tags, cfg[r].api_tags),
                            [tags |-> tags[r], tag_names |-> tag_names[r]])
        uri == ParseRule(rule, cfg[r].url_prefix)
        ref == PathItemRef(r, uri)
        item == IF ref \in DOMAIN items THEN items[ref] ELSE EmptyPathItem
        responses == CombineResponses(cfg[r].responses, kw.responses)
        request_body == RequestBodyObject(kw.request_body)
    IN  /\ tags' = [tags EXCEPT ![r] = stored.tags]
        /\ tag_names' = [tag_names EXCEPT ![r] = stored.tag_names]
        /\ paths' = [paths EXCEPT ![r] = Update(@, [k \in {uri} |-> ref])]
        /\ items' = Update(items, [k \in {ref} |-> [item EXCEPT ![method] = Some(operation)]])
        /\ components_schemas' = [components_schemas EXCEPT ![r] =
               Update(Update(@, SchemasOf(ResponseModels(responses))),
                      SchemasOf(DocumentedParamModels(ParseParameters(func), request_body)))]

\* the number of routes all routers hold
RECURSIVE SumLen(_)
SumLen(S) == IF S = {} THEN 0
             ELSE LET r == CHOOSE x \in S : TRUE IN Len(routes[r]) + SumLen(S \ {r})
TotalRoutes == SumLen(Routers)

\* a route list shared with every router that has registered r: the route is
\* appended to their lists too
AppendRoute_Live(r, route) ==
    [q \in Routers |->
        IF q = r \/ \E i \in 1..Len(routes[q]) :
                       routes[q][i].via # <<>> /\ Head(routes[q][i].via) = r
        THEN Append(routes[q], route)
        ELSE routes[q]]

\* `self.routes.append(route)`: the routes of all routers afterwards
AppendRoute(r, route) == [routes EXCEPT ![r] = Append(@, route)]

\* Starlette names a route after its endpoint when no name is given
RouteName(name, endpoint) == IF IsSome(name) THEN Val(name) ELSE endpoint.name

\* a decorator that drops the body model on the way to create_endpoint
EndpointParams_NoBody(func) == [ParseParameters(func) EXCEPT !.body = None]

\* the ParametersTuple the decorator hands to create_endpoint
EndpointParams(func) == ParseParameters(func)

\* @router.get(rule, **kw) / @router.post(rule, **kw) applied to func
Decorate(r, method, rule, func, kw) ==
    /\ ndecl < MaxDecls
    /\ TotalRoutes < MaxRoutes
    /\ method = "GET" => kw.request_body = None
    /\ IF IsDocumented(cfg[r].doc_ui, kw.doc_ui)
       THEN CollectOpenapiInfo(r, rule, func, kw, method)
       ELSE UNCHANGED <<tags, tag_names, paths, items, components_schemas>>
    /\ LET endpoint == CreateEndpoint(func, EndpointParams(func), <<r, method, rule, func.name>>)
       IN routes' = AppendRoute(r,
              AddedRoute(rule, endpoint, {method}, RouteName(kw.name, endpoint), <<>>))
    /\ ndecl' = ndecl + 1
    /\ UNCHANGED <<cfg, response>>

\* @router.websocket(rule, name=) applied to func
Websocket(r, rule, func, name) ==
    /\ ndecl < MaxDecls
    /\ TotalRoutes < MaxRoutes
    /\ routes' = AppendRoute(r,
           AddedWebSocketRoute(rule, func, RouteName(name, func), <<>>))
    /\ ndecl' = ndecl + 1
    /\ UNCHANGED <<cfg, paths, items, components_schemas, tags, tag_names, response>>

(***************************************************************************)
(* APIRouter.register_api                                                  *)
(***************************************************************************)
\* a loop over api.tags that appends every tag of the child
RECURSIVE MergeTags_AppendAll(_, _)
MergeTags_AppendAll(api_tags, own) ==
    IF api_tags = <<>> THEN own
    ELSE MergeTags_AppendAll(Tail(api_tags),
             [tags |-> Append(own.tags, Head(api_tags)),
              tag_names |-> Append(own.tag_names, Head(api_tags).name)])

\* a loop over api.tags in which the child's tag replaces a known one
RECURSIVE MergeTags_LastWins(_, _)
MergeTags_LastWins(api_tags, own) ==
    IF api_tags = <<>> THEN own
    ELSE LET tag == Head(api_tags)
             nxt == IF tag.name \notin Range(own.tag_names)
                    THEN [tags |-> Append(own.tags, tag),
                          tag_names |-> Append(own.tag_names, tag.name)]
                    ELSE [tags |-> [i \in 1..Len(own.tags) |->
                                      IF own.tags[i].name = tag.name THEN tag
                                      ELSE own.tags[i]],
                          tag_names |-> own.tag_names]
         IN MergeTags_LastWins(Tail(api_tags), nxt)

\* the loop over api.tags: a tag whose name is unknown is appended
RECURSIVE MergeTags(_, _)
MergeTags(api_tags, own) ==
    IF api_tags = <<>> THEN own
    ELSE LET tag == Head(api_tags)
             nxt == IF tag.name \notin Range(own.tag_names)
                    THEN [tags |-> Append(own.tags, tag),
                          tag_names |-> Append(own.tag_names, tag.name)]
                    ELSE own
         IN MergeTags(Tail(api_tags), nxt)

\* f"{self.url_prefix.rstrip('/')}{k}"
PrefixedKey(url_prefix, k) == RStrip(url_prefix) \o k

\* `prefixed_paths = {f"...{k}": v for k, v in api.paths.items()}`: the values
\* are the child's PathItem objects themselves
PrefixedPaths(url_prefix, api_paths) ==
    [pk \in {PrefixedKey(url_prefix, k) : k \in DOMAIN api_paths} |->
        api_paths[CHOOSE k \in DOMAIN api_paths : PrefixedKey(url_prefix, k) = pk]]

\* `self.paths.update(**prefixed_paths)`
MergedPaths(own_paths, prefixed_paths) == Update(own_paths, prefixed_paths)

\* `self.components_schemas.update(**api.components_schemas)`
MergedSchemas(own, api_schemas) == Update(own, api_schemas)

\* a register_api that forgets the child's url_prefix
PathWithPrefix_NoPrefix(api_url_prefix, origin_path) == origin_path

\* `path_with_prefix = api.url_prefix + route.origin_path`
PathWithPrefix(api_url_prefix, origin_path) == api_url_prefix \o origin_path

\* a register_api that adds a websocket route without the child's url_prefix
RegisteredRoute_WsUnprefixed(api, route) ==
    IF route.kind = "http"
    THEN AddedRoute(PathWithPrefix(cfg[api].url_prefix, route.origin_path),
                    route.endpoint, route.methods, route.name, <<api>> \o route.via)
    ELSE AddedWebSocketRoute(route.origin_path, route.endpoint, route.name,
                             <<api>> \o route.via)

\* the route the loop over api.routes adds for one route of the child api
RegisteredRoute(api, route) ==
    IF route.kind = "http"
    THEN AddedRoute(PathWithPrefix(cfg[api].url_prefix, route.origin_path),
                    route.endpoint, route.methods, route.name, <<api>> \o route.via)
    ELSE AddedWebSocketRoute(PathWithPrefix(cfg[api].url_prefix, route.origin_path),
                             route.endpoint, route.name, <<api>> \o route.via)

\* the routes the loop over api.routes appends, in the child's order
RegisteredRoutes(api) ==
    [i \in 1..Len(routes[api]) |-> RegisteredRoute(api, routes[api][i])]

\* a register_api that adds the security of self to the operations it imports
RegisterApi_Retag(self, api) ==
    /\ self # api
    /\ TotalRoutes + Len(routes[api]) <= MaxRoutes
    /\ LET merged == MergeTags(tags[api], [tags |-> tags[self], tag_names |-> tag_names[self]])
       IN /\ tags' = [tags EXCEPT ![self] = merged.tags]
          /\ tag_names' = [tag_names EXCEPT ![self] = merged.tag_names]
    /\ paths' = [paths EXCEPT ![self] =
           MergedPaths(@, PrefixedPaths(cfg[self].url_prefix, paths[api]))]
    /\ components_schemas' = [components_schemas EXCEPT ![self] =
           MergedSchemas(@, components_schemas[api])]
    /\ routes' = [routes EXCEPT ![self] = @ \o RegisteredRoutes(api)]
    /\ items' = [ref \in DOMAIN items |->
           IF ref \in {paths[api][k] : k \in DOMAIN paths[api]}
           THEN [m \in HTTPMethods |->
                   IF IsSome(items[ref][m])
                   THEN Some([Val(items[ref][m]) EXCEPT
                                !.security = OperationSecurity(@, cfg[self].security)])
                   ELSE None]
           ELSE items[ref]]
    /\ UNCHANGED <<cfg, ndecl, response>>

\* self.register_api(api).  A router is not registered on itself: the loop
\* over api.routes would then run over the list it appends to.
RegisterApi(self, api) ==
    /\ self # api
    /\ TotalRoutes + Len(routes[api]) <= MaxRoutes
    /\ LET merged == MergeTags(tags[api], [tags |-> tags[self], tag_names |-> tag_names[self]])
       IN /\ tags' = [tags EXCEPT ![self] = merged.tags]
          /\ tag_names' = [tag_names EXCEPT ![self] = merged.tag_names]
    /\ paths' = [paths EXCEPT ![self] =
           MergedPaths(@, PrefixedPaths(cfg[self].url_prefix, paths[api]))]
    /\ components_schemas' = [components_schemas EXCEPT ![self] =
           MergedSchemas(@, components_schemas[api])]
    /\ routes' = [routes EXCEPT ![self] =
           @ \o RegisteredRoutes(api)]
    /\ UNCHANGED <<cfg, items, ndecl, response>>

(***************************************************************************)
(* Serving a request: the endpoint create_endpoint builds                  *)
(***************************************************************************)
\* A request: whether its body is parseable JSON, and which schema its data
\* conforms to.
Payloads == {[json |-> TRUE, data |-> "s1"], [json |-> TRUE, data |-> "s2"],
             [json |-> FALSE, data |-> "s1"]}

\* validation of the request against one declared model
Validates(model, location, payload) ==
    /\ location = "body" => payload.json
    /\ payload.data = model.schema

\* the endpoint: every declared model is validated, a failure is answered
\* with 422 and the handler is not called; else the handler is called with
\* the validated objects
Serve(endpoint, payload) ==
    LET declared == {k \in DOMAIN endpoint.params : IsSome(endpoint.params[k])}
        ok == \A k \in declared : Validates(Val(endpoint.params[k]), k, payload)
    IN IF ok
       THEN [status |-> 200, invoked |-> TRUE, func |-> endpoint.func, payload |-> payload,
             args |-> [k \in declared |-> [model |-> Val(endpoint.params[k]),
                                          data |-> payload.data]]]
       ELSE [status |-> 422, invoked |-> FALSE, func |-> endpoint.func, payload |-> payload,
             args |-> EmptyDict]

\* a request matched to the i-th route of router r
Request(r, i, payload) ==
    /\ i \in 1..Len(routes[r])
    /\ routes[r][i].kind = "http"
    /\ response' = Some(Serve(routes[r][i].endpoint, payload))
    /\ UNCHANGED <<cfg, paths, items, components_schemas, tags, tag_names, routes, ndecl>>

(***************************************************************************)
(* Specifications                                                          *)
(***************************************************************************)
\* APIRouter.__init__
NewRouter(url_prefix, api_tags, security, responses, doc_ui) ==
    [url_prefix |-> url_prefix, api_tags |-> api_tags, security |-> security,
     responses |-> ConvertResponsesKeyToString(responses), doc_ui |-> doc_ui]

InitState ==
    /\ paths = [r \in Routers |-> EmptyDict]
    /\ items = EmptyDict
    /\ components_schemas = [r \in Routers |-> EmptyDict]
    /\ tags = [r \in Routers |-> <<>>]
    /\ tag_names = [r \in Routers |-> <<>>]
    /\ routes = [r \in Routers |-> <<>>]
    /\ ndecl = 0
    /\ response = None

\* The three routers of a nested application, one per shape of url_prefix:
\* none, "/a", and "/a/" with a trailing slash.
UrlPrefixOf(r) == IF r = "app" THEN <<>>
                  ELSE IF r = "api" THEN <<"/", "a">>
                  ELSE <<"/", "a", "/">>

\* Registration and merging: every router may register every other one, the
\* decorators keep their default keyword arguments.
Init ==
    /\ cfg = [r \in Routers |-> NewRouter(UrlPrefixOf(r), <<>>, <<>>, <<>>, TRUE)]
    /\ InitState

\* the rule of the websocket route of Spec
WsRule == <<"/", "w">>

\* the handlers of Spec, each with the method it is declared for
Declarations == {<<"GET", FB>>, <<"POST", FA1>>, <<"POST", FA2>>}

Next ==
    \/ \E r \in Routers, rule \in Rules, d \in Declarations :
          Decorate(r, d[1], rule, d[2], DefaultKw)
    \/ \E r \in Routers : Websocket(r, WsRule, F0, None)
    \/ \E self \in Routers, api \in Routers : RegisterApi(self, api)

Spec == Init /\ [][Next]_vars

\* Metadata: the routers differ in their router-level tags and security, the
\* decorators in their own tags, security and doc_ui.
RouterTagsOf(r) == IF r = "app" THEN <<>>
                   ELSE IF r = "api" THEN <<TagApi>>
                   ELSE <<TagBook2>>
RouterSecurityOf(r) == IF r = "api" THEN <<JWT>> ELSE <<>>

InitMeta ==
    /\ cfg = [r \in Routers |->
                NewRouter(UrlPrefixOf(r), RouterTagsOf(r), RouterSecurityOf(r), <<>>, TRUE)]
    /\ InitState

MetaKwargs ==
    {[DefaultKw EXCEPT !.tags = t, !.security = s, !.doc_ui = d] :
        t \in {None, Some(<<TagBook>>)}, s \in {None, Some(<<KEY>>)}, d \in BOOLEAN}
\* a GET handler under every combination, a POST handler shown or hidden
MetaDeclarations ==
    {<<"GET", FB, kw>> : kw \in MetaKwargs}
    \cup {<<"POST", FA1, kw>> : kw \in {DefaultKw, [DefaultKw EXCEPT !.doc_ui = FALSE]}}
MetaRule == <<"/", "x">>

NextMeta ==
    \/ \E r \in Routers, d \in MetaDeclarations :
          Decorate(r, d[1], MetaRule, d[2], d[3])
    \/ \E self \in Routers, api \in Routers : RegisterApi(self, api)

SpecMeta == InitMeta /\ [][NextMeta]_vars

\* Serving: routes with and without a body model and with a custom
\* request_body are declared and requests are sent to them; router sub is
\* constructed with doc_ui=False.
InitServe ==
    /\ cfg = [r \in Routers |-> NewRouter(UrlPrefixOf(r), <<>>, <<>>, <<>>, r # "sub")]
    /\ InitState

\* request_body as a dict and as a RequestBody object, with the same content
CustomContent == <<"text/plain", "text/html">>
RequestBodyDict == [kind |-> "dict", content |-> CustomContent, ref |-> None]
RequestBodyModel == [kind |-> "RequestBody", content |-> CustomContent, ref |-> None]

ServeKwargs ==
    {[DefaultKw EXCEPT !.request_body = b] :
        b \in {None, Some(RequestBodyDict), Some(RequestBodyModel)}}
ServeHandlers == {F0, FA1}
ServeRule == <<"/", "x">>

NextServe ==
    \/ \E r \in Routers, f \in ServeHandlers, kw \in ServeKwargs :
          Decorate(r, "POST", ServeRule, f, kw)
    \/ \E self \in Routers, api \in Routers : RegisterApi(self, api)
    \/ \E r \in Routers, i \in 1..MaxRoutes, payload \in Payloads : Request(r, i, payload)

SpecServe == InitServe /\ [][NextServe]_vars

\* Operation fields: the routers differ in their router-level responses, the
\* decorators in operation_id, deprecated and responses.
RouterResponsesOf(r) ==
    IF r = "api" THEN << <<IntKey(422), Some(A1)>>, <<StrKey("500"), None>> >>
    ELSE IF r = "sub" THEN << <<StrKey("422"), Some(A1)>> >>
    ELSE <<>>

InitOps ==
    /\ cfg = [r \in Routers |->
                NewRouter(UrlPrefixOf(r), <<>>, <<>>, RouterResponsesOf(r), TRUE)]
    /\ InitState

\* an operation_id given to a decorator
ExplicitId == <<"o", "p">>
\* responses given to a decorator: 422 as a str, and 422 as an HTTPStatus
\* member together with 200 as an int
RouteResponses ==
    { << <<StrKey("422"), Some(B1)>> >>,
      << <<HTTPStatusKey(422), Some(B1)>>, <<IntKey(200), None>> >> }

OpsKwargs ==
    {DefaultKw, [DefaultKw EXCEPT !.operation_id = Some(ExplicitId)]}
    \cup {[DefaultKw EXCEPT !.deprecated = Some(b)] : b \in BOOLEAN}
    \cup {[DefaultKw EXCEPT !.responses = rs] : rs \in RouteResponses}
OpsDeclarations ==
    {<<"GET", F0, kw>> : kw \in OpsKwargs}
    \cup {<<"POST", F0, [DefaultKw EXCEPT !.operation_id = Some(ExplicitId)]>>}
OpsRule == <<"/", "x">>

NextOps ==
    \/ \E r \in Routers, d \in OpsDeclarations :
          Decorate(r, d[1], OpsRule, d[2], d[3])
    \/ \E self \in Routers, api \in Routers : RegisterApi(self, api)

SpecOps == InitOps /\ [][NextOps]_vars

(***************************************************************************)
(* What the claims speak of                                                *)
(***************************************************************************)
\* the documented operations of router r: (uri, method, operation)
OperationsIn(P, I, r) ==
    {[uri |-> km[1], method |-> km[2], operation |-> Val(I[P[r][km[1]]][km[2]])] :
        km \in {x \in (DOMAIN P[r]) \X HTTPMethods : IsSome(I[P[r][x[1]]][x[2]])}}
Operations(r) == OperationsIn(paths, items, r)

\* (uri, method) is documented in router r
PresentIn(P, I, r, uri, method) ==
    uri \in DOMAIN P[r] /\ IsSome(I[P[r][uri]][method])

\* the url_prefix of the routers of via, concatenated, outermost first
RECURSIVE PrefixChain(_)
PrefixChain(via) ==
    IF via = <<>> THEN <<>> ELSE cfg[Head(via)].url_prefix \o PrefixChain(Tail(via))

\* the rule an HTTP route was declared with
DeclaredRule(route) == route.endpoint.decl[3]

\* the path at which a route of router r is served once r is registered:
\* register_api adds it under r.url_prefix + origin_path
ServedPath(r, route) == RoutePath(PathWithPrefix(cfg[r].url_prefix, route.origin_path))

\* the component names an operation refers to
OperationRefs(op) ==
    op.parameters
    \cup (IF IsSome(op.requestBody) /\ IsSome(Val(op.requestBody).ref)
          THEN {Val(Val(op.requestBody).ref)} ELSE {})
    \cup {Val(op.responses[c]) : c \in {k \in DOMAIN op.responses : IsSome(op.responses[k])}}

HttpRoutes(r) == {i \in 1..Len(routes[r]) : routes[r][i].kind = "http"}
WsRoutes(r) == {i \in 1..Len(routes[r]) : routes[r][i].kind = "ws"}

(***************************************************************************)
(* Claims                                                                  *)
(***************************************************************************)
\* C1: a step self.register_api(api) gives self, for every HTTP route of api,
\* a route whose origin path is api.url_prefix + the child's origin path and
\* whose endpoint, methods and name are the child's; its origin path is the
\* url_prefix of every router that carried it, outermost first, followed by
\* the declared rule, and it is served at that path.
C1_NestedRegistration ==
    [][\A self \in Routers, api \in Routers :
         RegisterApi(self, api) =>
           \A i \in HttpRoutes(api) :
             \E j \in 1..Len(routes'[self]) :
               LET child == routes[api][i]
                   new == routes'[self][j]
               IN /\ new.kind = "http"
                  /\ new.origin_path = cfg[api].url_prefix \o child.origin_path
                  /\ new.endpoint = child.endpoint
                  /\ new.methods = child.methods
                  /\ new.name = child.name
                  /\ new.via = <<api>> \o child.via
                  /\ new.origin_path = PrefixChain(new.via) \o DeclaredRule(new)
                  /\ new.path = RoutePath(new.origin_path)]_vars

\* C1 witness: a route carried through two registrations, both routers with a
\* url_prefix, sits in the outer router under P + C + R
C1_Witness ==
    \E r \in Routers : \E i \in HttpRoutes(r) :
        LET q == routes[r][i]
        IN /\ Len(q.via) = 2
           /\ cfg[q.via[1]].url_prefix # <<>>
           /\ cfg[q.via[2]].url_prefix # <<>>
           /\ q.origin_path = cfg[q.via[1]].url_prefix \o cfg[q.via[2]].url_prefix
                                \o DeclaredRule(q)

\* C2: every HTTP route of a router whose operation is documented in the
\* router's paths is documented there under the path at which it is served
C2_DocumentedPathIsServedPath ==
    \A r \in Routers : \A i \in HttpRoutes(r) :
        LET route == routes[r][i]
            mine == {o \in Operations(r) : o.operation.decl = route.endpoint.decl}
        IN mine # {} =>
             \E o \in mine : o.uri = ServedPath(r, route) /\ o.method \in route.methods

\* C3: an operation documented under (uri, method) in a router stays
\* documented there, and register_api documents every operation of the child
\* in the parent under the parent's prefix
C3_NoOperationLost ==
    [][/\ \A r \in Routers : \A uri \in DOMAIN paths[r] : \A m \in HTTPMethods :
            PresentIn(paths, items, r, uri, m) => PresentIn(paths', items', r, uri, m)
       /\ \A self \in Routers, api \in Routers :
            RegisterApi(self, api) =>
              \A uri \in DOMAIN paths[api] : \A m \in HTTPMethods :
                PresentIn(paths, items, api, uri, m) =>
                  PresentIn(paths', items', self,
                            PrefixedKey(cfg[self].url_prefix, uri), m)]_vars

\* every documented operation finds, under each component name it refers to,
\* the schema it was registered with
SchemasMatchOperations ==
    \A r \in Routers : \A o \in Operations(r) : \A m \in o.operation.models :
        m.name \in DOMAIN components_schemas[r] =>
            components_schemas[r][m.name] = m.schema

\* C4: component names map to the schema their operations were registered
\* with, and no step replaces the schema stored under a name by another one
C4_SchemasWithoutCollisions ==
    [][/\ SchemasMatchOperations'
       /\ \A r \in Routers : \A n \in DOMAIN components_schemas[r] :
            components_schemas'[r][n] = components_schemas[r][n]]_vars

\* C6: every component an operation in a router's paths refers to has an
\* entry in that router's components_schemas
C6_ReferencedSchemasPresent ==
    \A r \in Routers : \A o \in Operations(r) :
        OperationRefs(o.operation) \subseteq DOMAIN components_schemas[r]

\* the router a step applied a decorator to, if it applied one: every
\* decorator counts in ndecl and appends to the routes of its router
DecoratedRouters ==
    IF ndecl' # ndecl THEN {q \in Routers : routes'[q] # routes[q]} ELSE {}

\* the route a decorator step appended to router r
LastRoute(R, r) == R[r][Len(R[r])]

\* a decorator step appended exactly one route, for rule and method
AppendedOne(r, method, rule) ==
    /\ Len(routes'[r]) = Len(routes[r]) + 1
    /\ SubSeq(routes'[r], 1, Len(routes[r])) = routes[r]
    /\ LastRoute(routes', r).kind = "http"
    /\ LastRoute(routes', r).origin_path = rule
    /\ method \in LastRoute(routes', r).methods
    /\ \A q \in Routers \ {r} : routes'[q] = routes[q]

\* C5: a request to a route whose handler declares a body model is answered
\* with 422, the handler not invoked, when its body is not parseable JSON or
\* does not validate against the model; the handler is invoked only with the
\* object validated against the declared model, and answers 200
C5_ValidationPrecedesHandler ==
    IsSome(response) =>
        LET resp == Val(response)
            body == resp.func.params.body
        IN IsSome(body) =>
             /\ (~resp.payload.json \/ resp.payload.data # Val(body).schema) =>
                    (resp.status = 422 /\ ~resp.invoked)
             /\ resp.invoked =>
                    /\ resp.status = 200
                    /\ resp.payload.json
                    /\ "body" \in DOMAIN resp.args
                    /\ resp.args["body"] = [model |-> Val(body), data |-> resp.payload.data]
                    /\ resp.payload.data = Val(body).schema

\* C5 witness: a request with an unparseable body to a handler with a body
\* model was refused
C5_Witness ==
    /\ IsSome(response)
    /\ IsSome(Val(response).func.params.body)
    /\ ~Val(response).payload.json
    /\ Val(response).status = 422

\* C7: a decorator applied with doc_ui=False appends exactly one route for
\* the rule and method, leaves paths, tags, tag_names and components_schemas
\* as they were, and the endpoint of the route holds the parameter models of
\* the handler
C7_HiddenRouteStillServed ==
    [][\A r \in DecoratedRouters, d \in MetaDeclarations :
         (d[3].doc_ui = FALSE /\ Decorate(r, d[1], MetaRule, d[2], d[3])) =>
            /\ AppendedOne(r, d[1], MetaRule)
            /\ paths' = paths /\ items' = items
            /\ tags' = tags /\ tag_names' = tag_names
            /\ components_schemas' = components_schemas
            /\ LastRoute(routes', r).endpoint.params = d[2].params
            /\ LastRoute(routes', r).endpoint.func = d[2]]_vars

\* C7 witness: a router that documents (doc_ui=True) holds a route with a
\* parameter model and documents nothing
C7_Witness ==
    \E r \in Routers :
        /\ cfg[r].doc_ui
        /\ DOMAIN paths[r] = {}
        /\ tags[r] = <<>>
        /\ DOMAIN components_schemas[r] = {}
        /\ \E i \in HttpRoutes(r) : ParamModels(routes[r][i].endpoint.params) # {}

\* the operation a decorator step documented on router r
Documented(r, method, rule) ==
    Val(items'[paths'[r][ParseRule(rule, cfg[r].url_prefix)]][method])

\* C8: the security of an operation a decorator documents is the decorator's
\* security list followed by the router's, and is unset exactly when both
\* are empty
C8_RouterSecurityApplies ==
    [][\A r \in DecoratedRouters, d \in MetaDeclarations :
         (d[3].doc_ui /\ Decorate(r, d[1], MetaRule, d[2], d[3])) =>
            LET op == Documented(r, d[1], MetaRule)
                own == OrEmpty(d[3].security)
            IN /\ (own = <<>> /\ cfg[r].security = <<>>) <=> op.security = None
               /\ op.security # None => Val(op.security) = own \o cfg[r].security]_vars

\* C8 witness: an operation whose security is the decorator's followed by the
\* router's
C8_Witness ==
    \E r \in Routers : \E o \in Operations(r) :
        /\ o.operation.decl[1] = r
        /\ cfg[r].security = <<JWT>>
        /\ o.operation.security = Some(<<KEY, JWT>>)

\* every tag of an operation documented on the router that declared it is in
\* the router's tags and tag_names
OwnTagsStored ==
    \A r \in Routers : \A o \in Operations(r) :
        o.operation.decl[1] = r =>
            /\ Range(OrEmpty(o.operation.tags)) \subseteq {t.name : t \in Range(tags[r])}
            /\ Range(OrEmpty(o.operation.tags)) \subseteq Range(tag_names[r])

\* C9: the tags of an operation a decorator documents are the names of the
\* decorator's tags followed by the router's, and every tag of an operation
\* is in the top-level tags of the router that declared it
C9_RouterTagsApply ==
    [][/\ \A r \in DecoratedRouters, d \in MetaDeclarations :
            (d[3].doc_ui /\ Decorate(r, d[1], MetaRule, d[2], d[3])) =>
               OrEmpty(Documented(r, d[1], MetaRule).tags)
                   = Names(OrEmpty(d[3].tags)) \o Names(cfg[r].api_tags)
       /\ OwnTagsStored']_vars

\* C9 witness: an operation tagged with its own tag and then the router's,
\* both in the router's tags
C9_Witness ==
    \E r \in Routers : \E o \in Operations(r) :
        /\ o.operation.decl[1] = r
        /\ o.operation.tags = Some(<<"book", "api">>)
        /\ Names(tags[r]) = <<"book", "api">>

\* C10: a request_body given to the decorator, as a dict or as a RequestBody,
\* is the documented request body: the same RequestBody with the given media
\* types in the given order, whether or not the handler declares a body
\* model; the route is added and its endpoint validates the handler's models
C10_CustomRequestBody ==
    [][\A r \in DecoratedRouters, f \in ServeHandlers, kw \in ServeKwargs :
         (IsSome(kw.request_body) /\ cfg[r].doc_ui
            /\ Decorate(r, "POST", ServeRule, f, kw)) =>
            LET op == Documented(r, "POST", ServeRule)
            IN /\ IsSome(op.requestBody)
               /\ Val(op.requestBody).content = Val(kw.request_body).content
               /\ Val(op.requestBody) = RequestBodyModel
               /\ AppendedOne(r, "POST", ServeRule)
               /\ LastRoute(routes', r).endpoint.params = f.params]_vars

\* C10 witness: a handler with a body model is documented with the custom
\* media types
C10_Witness ==
    \E r \in Routers : \E o \in Operations(r) :
        /\ o.operation.decl[4] = FA1.name
        /\ IsSome(o.operation.requestBody)
        /\ Val(o.operation.requestBody).content = CustomContent

\* C11: no two documented operations of a router's paths, under different
\* (uri, method), carry the same operationId
C11_OperationIdUnique ==
    \A r \in Routers : \A o1 \in Operations(r), o2 \in Operations(r) :
        o1.operation.operationId = o2.operation.operationId =>
            (o1.uri = o2.uri /\ o1.method = o2.method)

\* C12: a step self.register_api(api) gives self, for every websocket route
\* of api, a new websocket route whose origin path is api.url_prefix + the
\* child's origin path and whose endpoint and name are the child's; its
\* origin path is the url_prefix of every router that carried it, outermost
\* first, followed by the declared rule, and its path is that origin path;
\* a websocket decorator leaves paths as they were, and register_api adds to
\* the parent's paths no key but the prefixed keys of the child's paths
C12_WebSocketCarried ==
    [][/\ \A self \in Routers, api \in Routers :
            RegisterApi(self, api) =>
              /\ \A i \in WsRoutes(api) :
                    \E j \in (Len(routes[self]) + 1)..Len(routes'[self]) :
                      LET child == routes[api][i]
                          new == routes'[self][j]
                      IN /\ new.kind = "ws"
                         /\ new.origin_path = cfg[api].url_prefix \o child.origin_path
                         /\ new.endpoint = child.endpoint
                         /\ new.name = child.name
                         /\ new.via = <<api>> \o child.via
                         /\ new.origin_path = PrefixChain(new.via) \o WsRule
                         /\ new.path = RoutePath(new.origin_path)
              /\ DOMAIN paths'[self] =
                    DOMAIN paths[self]
                      \cup {PrefixedKey(cfg[self].url_prefix, k) : k \in DOMAIN paths[api]}
       /\ \A r \in DecoratedRouters :
            Websocket(r, WsRule, F0, None) =>
              /\ paths' = paths /\ items' = items
              /\ LastRoute(routes', r).kind = "ws"
              /\ LastRoute(routes', r).origin_path = WsRule]_vars

\* C12 witness: a websocket route carried through two registrations, both
\* routers with a url_prefix, sits in the outer router under P + C + R, and
\* that router documents no path
C12_Witness ==
    \E r \in Routers : \E i \in WsRoutes(r) :
        LET q == routes[r][i]
        IN /\ Len(q.via) = 2
           /\ cfg[q.via[1]].url_prefix # <<>>
           /\ cfg[q.via[2]].url_prefix # <<>>
           /\ q.origin_path = cfg[q.via[1]].url_prefix \o cfg[q.via[2]].url_prefix \o WsRule
           /\ DOMAIN paths[r] = {}

\* C13: the deprecated field of a documented operation is either unset or
\* True: a decorator given deprecated=None or deprecated=False leaves it unset
C13_DeprecatedOnlyIfTrue ==
    \A r \in Routers : \A o \in Operations(r) :
        o.operation.deprecated = None \/ o.operation.deprecated = Some(TRUE)

\* the status codes of a responses argument, as strings
StatusCodes(rs) == {StatusKey(rs[i][1]) : i \in 1..Len(rs)}
\* what an operation documents for a response value: the component it refers to
ResponseRef(v) == IF IsSome(v) THEN Some(Val(v).name) ELSE None

\* C14: the responses of an operation a decorator documents carry, for every
\* status code the decorator gives, the decorator's entry under the string
\* of the code, and for every other status code of the router the router's
\* entry, and no other code; the router's own responses stay as they were
C14_ResponsesCombined ==
    [][\A r \in DecoratedRouters, d \in OpsDeclarations :
         (d[1] \in LastRoute(routes', r).methods
            /\ Decorate(r, d[1], OpsRule, d[2], d[3])) =>
            LET op == Documented(r, d[1], OpsRule)
                given == d[3].responses
                router == RouterResponsesOf(r)
            IN /\ DOMAIN op.responses = StatusCodes(given) \cup StatusCodes(router)
               /\ \A i \in 1..Len(given) :
                     op.responses[StatusKey(given[i][1])] = ResponseRef(given[i][2])
               /\ \A i \in 1..Len(router) :
                     StatusKey(router[i][1]) \notin StatusCodes(given) =>
                       op.responses[StatusKey(router[i][1])] = ResponseRef(router[i][2])
               /\ cfg'[r].responses = cfg[r].responses
               /\ DOMAIN cfg[r].responses = StatusCodes(router)]_vars

\* C14 witness: on a router whose responses give 422 (as an int) and 500, an
\* operation given 422 (as an HTTPStatus member) and 200 documents 422 with
\* the decorator's model, the decorator's 200 and the router's 500
C14_Witness ==
    \E r \in Routers : \E o \in Operations(r) :
        /\ o.operation.decl[1] = r
        /\ DOMAIN cfg[r].responses = {"422", "500"}
        /\ cfg[r].responses["422"] = Some(A1)
        /\ DOMAIN o.operation.responses = {"200", "422", "500"}
        /\ o.operation.responses["422"] = Some(B1.name)

\* tag_names is the list of the names of tags, in order, no name twice
TagsInSync(T, N) ==
    \A r \in Routers :
        /\ N[r] = Names(T[r])
        /\ \A i \in 1..Len(N[r]), j \in 1..Len(N[r]) : N[r][i] = N[r][j] => i = j

\* C15: in every state tag_names is the list of the names of tags in the
\* same order and holds no name twice; a step self.register_api(api) keeps
\* the tags of self as they were at the head of the list, in their order, and
\* appends a tag of api exactly when its name was not known to self
C15_TagsUniqueAndInSync ==
    [][/\ TagsInSync(tags, tag_names)
       /\ TagsInSync(tags', tag_names')
       /\ \A self \in Routers, api \in Routers :
            RegisterApi(self, api) =>
              LET n == Len(tags[self])
                  added == SubSeq(tags'[self], n + 1, Len(tags'[self]))
              IN /\ Len(tags'[self]) >= n
                 /\ SubSeq(tags'[self], 1, n) = tags[self]
                 /\ \A i \in 1..Len(tags[api]) :
                       IF tags[api][i].name \in Range(tag_names[self])
                       THEN tags[api][i].name \notin Range(Names(added))
                       ELSE tags[api][i] \in Range(added)
                 /\ Range(added) \subseteq Range(tags[api])]_vars

\* C15 witness: a router whose tag "book" differs from the tag "book" of a
\* router it has registered: the first registered was kept
C15_Witness ==
    \E self \in Routers, api \in Routers :
        /\ \E i \in 1..Len(routes[self]) :
              routes[self][i].via # <<>> /\ Head(routes[self][i].via) = api
        /\ TagBook \in Range(tags[self])
        /\ TagBook2 \in Range(tags[api])
        /\ tag_names[self] = Names(tags[self])

\* C16: a decorator applied to a router leaves the routes of every other
\* router and the keys of every other router's paths as they were, whether
\* or not the other router has registered it; a step self.register_api(api)
\* adds to self as many routes as api holds at that moment
C16_RegisterApiSnapshot ==
    [][/\ \A r \in DecoratedRouters : \A q \in Routers \ {r} :
            /\ routes'[q] = routes[q]
            /\ DOMAIN paths'[q] = DOMAIN paths[q]
       /\ \A self \in Routers, api \in Routers :
            RegisterApi(self, api) =>
              Len(routes'[self]) = Len(routes[self]) + Len(routes[api])]_vars

\* C16 witness: a router has registered another one, which holds a route
\* declared on it that the registering router does not hold, documented under
\* a path the registering router does not document
C16_Witness ==
    \E self \in Routers, api \in Routers :
        /\ self # api
        /\ \E i \in 1..Len(routes[self]) : routes[self][i].via = <<api>>
        /\ \E j \in HttpRoutes(api) :
              /\ routes[api][j].via = <<>>
              /\ \A k \in HttpRoutes(self) :
                    routes[self][k].endpoint # routes[api][j].endpoint
        /\ \E uri \in DOMAIN paths[api] :
              PrefixedKey(cfg[self].url_prefix, uri) \notin DOMAIN paths[self]

\* C17: in the state a step self.register_api(api) leads to, a second
\* self.register_api(api) computes for self the tags, tag_names, paths and
\* components_schemas that self already has
C17_RegisterApiIdempotent ==
    [][\A self \in Routers, api \in Routers :
         RegisterApi(self, api) =>
            LET again == MergeTags(tags'[api],
                                   [tags |-> tags'[self], tag_names |-> tag_names'[self]])
            IN /\ again.tags = tags'[self]
               /\ again.tag_names = tag_names'[self]
               /\ MergedPaths(paths'[self],
                              PrefixedPaths(cfg'[self].url_prefix, paths'[api])) = paths'[self]
               /\ MergedSchemas(components_schemas'[self], components_schemas'[api])
                     = components_schemas'[self]]_vars

\* C17 witness: a router that has registered, twice, a router with tags, a
\* documented path and a component schema
C17_Witness ==
    \E self \in Routers, api \in Routers :
        /\ self # api
        /\ \E i \in 1..Len(routes[self]), j \in 1..Len(routes[self]) :
              /\ i < j
              /\ routes[self][i].via = <<api>>
              /\ routes[self][j] = routes[self][i]
        /\ tags[api] # <<>> /\ Range(tags[api]) \subseteq Range(tags[self])
        /\ DOMAIN paths[api] # {}
        /\ \A k \in DOMAIN paths[api] :
              PrefixedKey(cfg[self].url_prefix, k) \in DOMAIN paths[self]
        /\ DOMAIN components_schemas[api] # {}
        /\ DOMAIN components_schemas[api] \subseteq DOMAIN components_schemas[self]

\* C18: a step self.register_api(api) documents in self every operation of
\* api as it is in api, with the tags and the security it has there, whatever
\* the router-level tags and security of self; it leaves the tags, tag_names,
\* paths, PathItems, components_schemas and routes of api as they were
C18_ImportKeepsOperations ==
    [][\A self \in Routers, api \in Routers :
         RegisterApi(self, api) =>
            /\ \A o \in Operations(api) :
                  LET key == PrefixedKey(cfg[self].url_prefix, o.uri)
                      imported == Val(items'[paths'[self][key]][o.method])
                  IN /\ imported.tags = o.operation.tags
                     /\ imported.security = o.operation.security
                     /\ imported = o.operation
            /\ tags'[api] = tags[api]
            /\ tag_names'[api] = tag_names[api]
            /\ paths'[api] = paths[api]
            /\ OperationsIn(paths', items', api) = Operations(api)
            /\ components_schemas'[api] = components_schemas[api]
            /\ routes'[api] = routes[api]]_vars

\* C18 witness: a router with router-level tags and security documents an
\* operation declared on another router that has neither tags nor security
C18_Witness ==
    \E self \in Routers : \E o \in Operations(self) :
        /\ o.operation.decl[1] # self
        /\ cfg[self].security # <<>>
        /\ cfg[self].api_tags # <<>>
        /\ o.operation.security = None
        /\ o.operation.tags = None
        /\ \E i \in HttpRoutes(self) : routes[self][i].via # <<>>

\* C19: the paths of a router constructed with doc_ui=False are empty in
\* every state
C19_HiddenRouterDocumentsNothing ==
    \A r \in Routers : ~cfg[r].doc_ui => DOMAIN paths[r] = {}

\* C20: no step removes or reorders a route: the routes a router held stay
\* at the head of its list.  A decorator appends exactly one route to its
\* router and none to another: its origin_path is the rule as written, its
\* path the rule made to start with "/", and it is bound to the decorator's
\* method (with HEAD beside GET) or, for websocket, to none.  A step
\* self.register_api(api) appends to self one route per route of api, in the
\* order of api, each of the kind, endpoint and name of the route it copies
C20_RoutesAppendOnly ==
    [][/\ \A r \in Routers :
            /\ Len(routes'[r]) >= Len(routes[r])
            /\ SubSeq(routes'[r], 1, Len(routes[r])) = routes[r]
       /\ \A r \in DecoratedRouters :
            LET new == LastRoute(routes', r)
            IN /\ Len(routes'[r]) = Len(routes[r]) + 1
               /\ \A q \in Routers \ {r} : routes'[q] = routes[q]
               /\ StartsWithSlash(new.path)
               /\ new.path \in {new.origin_path, <<Slash>> \o new.origin_path}
               /\ \A rule \in Rules, d \in Declarations :
                     (new.kind = "http" /\ d[1] \in new.methods
                        /\ Decorate(r, d[1], rule, d[2], DefaultKw)) =>
                       /\ new.origin_path = rule
                       /\ new.methods \subseteq {d[1], "HEAD"}
                       /\ new.endpoint.func = d[2]
               /\ (new.kind = "ws" /\ Websocket(r, WsRule, F0, None)) =>
                       /\ new.origin_path = WsRule
                       /\ new.methods = {}
                       /\ new.endpoint = F0
       /\ \A self \in Routers, api \in Routers :
            RegisterApi(self, api) =>
              /\ Len(routes'[self]) = Len(routes[self]) + Len(routes[api])
              /\ \A i \in 1..Len(routes[api]) :
                    LET new == routes'[self][Len(routes[self]) + i]
                        old == routes[api][i]
                    IN /\ new.kind = old.kind
                       /\ new.endpoint = old.endpoint
                       /\ new.name = old.name
                       /\ new.methods = old.methods
                       /\ StartsWithSlash(new.path)
              /\ \A q \in Routers \ {self} : routes'[q] = routes[q]]_vars

\* C20 witness: a router holds the route of a decorator given a rule without
\* a leading "/", served under "/" + rule, and after it the route of a router
\* it has registered
C20_Witness ==
    \E self \in Routers, api \in Routers :
        /\ Len(routes[self]) = 2
        /\ routes[self][1].via = <<>>
        /\ routes[self][1].origin_path = <<"x">>
        /\ routes[self][1].path = <<Slash, "x">>
        /\ routes[self][2].via = <<api>>
        /\ Len(routes[api]) = 1
        /\ routes[self][2].endpoint = routes[api][1].endpoint

====
